---------------------------- MODULE Spec2Model ----------------------------
(***************************************************************************)
(* Model of the plate heat exchanger calculation library:                  *)
(*   ntutools.py            epsilon_ntu and its two effectiveness helpers  *)
(*   plateheatexchanger.py  moist air properties, PlateHeatExchanger      *)
(*   streamlit_test.py      the calculation of one project                 *)
(*                                                                         *)
(* Python floats are modelled as binary floating point numbers with a      *)
(* 15 bit mantissa, round-to-nearest-even, underflow to 0.0 as in binary64 *)
(* and no upper limit on the exponent; an                                  *)
(* operation that raises in Python yields a value whose err field names    *)
(* the exception, and an operation on such a value yields it unchanged     *)
(* (the exception propagates to the caller).                               *)
(***************************************************************************)
EXTENDS Integers, Sequences, FiniteSets, TLC

VARIABLES
    args,       \* the pending call: its operation name and its arguments
    res,        \* the outcome of the last call: [err, val]
    phe,        \* the PlateHeatExchanger object, or None
    hot_air,    \* the hot side MoistAir object, or None
    cold_air    \* the cold side MoistAir object, or None

vars == <<args, res, phe, hot_air, cold_air>>

None == [op |-> "none"]

---------------------------------------------------------------------------
(* Floating point kernel: value = m * 2^e, 2^14 <= |m| < 2^15 or m = 0.   *)
(* Every operation binds its operands to their values before it uses them *)
(* (Let1, Let2), as a Python call evaluates its arguments once.            *)

Let1(a, F(_)) == CHOOSE v \in {F(x) : x \in {a}} : TRUE
Let2(a, b, F(_, _)) == CHOOSE v \in {F(x, y) : x \in {a}, y \in {b}} : TRUE

Hi == 2^15
Lo == 2^14

Abs(x) == IF x < 0 THEN -x ELSE x
Sgn(x) == IF x < 0 THEN -1 ELSE 1

RECURSIVE BitLen(_)
BitLen(n) == IF n = 0 THEN 0 ELSE 1 + BitLen(n \div 2)

Zero == [m |-> 0, e |-> 0, err |-> ""]
Err(name) == [m |-> 0, e |-> 0, err |-> name]
IsErr(a) == a.err # ""

\* a >= 2^15 of n bits, rounded to 15 bits (ties to even), times 2^e, signed s.
round_bits(a, n, e, s) ==
    LET k  == n - 15
        q  == a \div 2^k
        r  == a % 2^k
        h  == 2^(k - 1)
        q1 == IF r > h \/ (r = h /\ q % 2 = 1) THEN q + 1 ELSE q
    IN  IF q1 = Hi
        THEN [m |-> s * Lo, e |-> e + k + 1, err |-> ""]
        ELSE [m |-> s * q1, e |-> e + k, err |-> ""]

norm_bits(a, n, e, s) ==
    IF n <= 15
    THEN [m |-> s * a * 2^(15 - n), e |-> e - (15 - n), err |-> ""]
    ELSE round_bits(a, n, e, s)

\* Underflow of binary64: a result of magnitude at most 2^-1075, half the
\* smallest subnormal, is 0.0.  (The reduced precision of the subnormals
\* above it is not modelled, nor is overflow to inf: the inputs stay clear
\* of 2^1024.)
flush(x) ==
    IF x.e + 15 <= -1075 \/ (Abs(x.m) = Lo /\ x.e + 14 <= -1075)
    THEN Zero ELSE x

norm(m, e) ==
    IF m = 0 THEN Zero
    ELSE Let1(Let1(Abs(m), LAMBDA a : norm_bits(a, BitLen(a), e, Sgn(m))),
              flush)

\* The float nearest to m * 2^e (ties to even).
Norm(m, e) == Let2(m, e, norm)

FromInt(n) == Norm(n, 0)
One == [m |-> 16384, e |-> -14, err |-> ""]

neg(a) == IF IsErr(a) THEN a ELSE [a EXCEPT !.m = -a.m]
FNeg(a) == Let1(a, neg)

add(a, b) ==
    IF IsErr(a) THEN a
    ELSE IF IsErr(b) THEN b
    ELSE IF a.m = 0 THEN b
    ELSE IF b.m = 0 THEN a
    ELSE IF a.e >= b.e
         THEN (IF a.e - b.e > 15 THEN a ELSE Norm(a.m * 2^(a.e - b.e) + b.m, b.e))
         ELSE (IF b.e - a.e > 15 THEN b ELSE Norm(b.m * 2^(b.e - a.e) + a.m, a.e))
FAdd(a, b) == Let2(a, b, add)

sub(a, b) == add(a, neg(b))
FSub(a, b) == Let2(a, b, sub)

mul(a, b) ==
    IF IsErr(a) THEN a
    ELSE IF IsErr(b) THEN b
    ELSE Norm(a.m * b.m, a.e + b.e)
FMul(a, b) == Let2(a, b, mul)

\* Python's float division: ZeroDivisionError on a zero divisor.
div(a, b) ==
    IF IsErr(a) THEN a
    ELSE IF IsErr(b) THEN b
    ELSE IF b.m = 0 THEN Err("ZeroDivisionError")
    ELSE Norm(Sgn(a.m) * Sgn(b.m)
                * (2 * ((Abs(a.m) * 2^16) \div Abs(b.m))
                   + (IF (Abs(a.m) * 2^16) % Abs(b.m) = 0 THEN 0 ELSE 1)),
              a.e - b.e - 17)
FDiv(a, b) == Let2(a, b, div)

\* The decimal literal n / 10^d.
Dec(n, d) == FDiv(FromInt(n), FromInt(10^d))

sign_of_difference(a, b) ==
    IF a.m = 0 THEN -b.m
    ELSE IF b.m = 0 THEN a.m
    ELSE IF (a.m > 0) # (b.m > 0) THEN a.m
    ELSE IF a.e = b.e THEN a.m - b.m
    ELSE IF a.e > b.e THEN a.m ELSE -b.m
lt(a, b) == sign_of_difference(a, b) < 0
FLt(a, b) == Let2(a, b, lt)
FGt(a, b) == FLt(b, a)
FLe(a, b) == ~FLt(b, a)
FGe(a, b) == ~FLt(a, b)
FAbs(a) == Let1(a, LAMBDA x : IF IsErr(x) THEN x ELSE [x EXCEPT !.m = Abs(x.m)])

\* Python's builtin min(a, b) and max(a, b) on two floats.
py_min(a, b) == IF IsErr(a) THEN a ELSE IF IsErr(b) THEN b
                ELSE IF lt(b, a) THEN b ELSE a
py_max(a, b) == IF IsErr(a) THEN a ELSE IF IsErr(b) THEN b
                ELSE IF lt(a, b) THEN b ELSE a
PyMin(a, b) == Let2(a, b, py_min)
PyMax(a, b) == Let2(a, b, py_max)

\* a * 2^k, exactly.
scale(a, k) == IF IsErr(a) \/ a.m = 0 THEN a ELSE [a EXCEPT !.e = a.e + k]
FScale(a, k) == Let2(a, k, scale)

\* The integer nearest to a, for |a| < 2^30.
round_int(a) ==
    IF a.e >= 0 THEN a.m * 2^(a.e)
    ELSE IF -a.e > 16 THEN 0
    ELSE Sgn(a.m) * ((Abs(a.m) + 2^(-a.e - 1)) \div 2^(-a.e))
FRound(a) == Let1(a, round_int)

LN2  == [m |-> 22713, e |-> -15, err |-> ""]
LN10 == [m |-> 18863, e |-> -13, err |-> ""]

\* exp(r) for |r| <= ln(2)/2, by its Taylor series in Horner form:
\* exp_terms(r, n) = 1 + r/n (1 + r/(n+1) (... (1 + r/6))).
RECURSIVE exp_terms(_, _)
exp_terms(r, n) ==
    IF n > 6 THEN One
    ELSE FAdd(One, FMul(FDiv(r, FromInt(n)), exp_terms(r, n + 1)))

exp_series(r) == exp_terms(r, 1)

exp_reduced(x, k) == FScale(Let1(FSub(x, FMul(FromInt(k), LN2)), exp_series), k)

\* math.exp: 2^k * exp(r) with r = x - k ln 2.  Beyond the range of
\* binary64 the result underflows to 0.0 or raises OverflowError.
exp(x) ==
    IF IsErr(x) THEN x
    ELSE IF lt(FromInt(709), x) THEN Err("OverflowError")
    ELSE IF lt(x, FromInt(-745)) THEN Zero
    ELSE Let2(x, FRound(FDiv(x, LN2)), exp_reduced)
FExp(x) == Let1(x, exp)

\* atanh(z) / z by its series in z2 = z^2, |z| <= 0.172, in Horner form:
\* atanh_terms(z2, k) = 1/k + z2 (1/(k+2) + z2 (... + z2 / 7)).
RECURSIVE atanh_terms(_, _)
atanh_terms(z2, k) ==
    IF k > 7 THEN Zero
    ELSE FAdd(FDiv(One, FromInt(k)), FMul(z2, atanh_terms(z2, k + 2)))

atanh2_series(z, z2) == FScale(FMul(z, atanh_terms(z2, 1)), 1)

ln_reduced(y, n) ==
    FAdd(FMul(FromInt(n), LN2),
         Let1(FDiv(FSub(y, One), FAdd(y, One)),
              LAMBDA z : Let2(z, FMul(z, z), atanh2_series)))

\* math.log: ln(y * 2^n) = n ln 2 + 2 atanh((y - 1) / (y + 1)),
\* with y in [0.707, 1.414].
ln(x) ==
    IF IsErr(x) THEN x
    ELSE IF x.m <= 0 THEN Err("ValueError")
    ELSE Let1(IF x.m > 23170 THEN 15 ELSE 14,
         LAMBDA k : ln_reduced([m |-> x.m, e |-> -k, err |-> ""], x.e + k))
FLn(x) == Let1(x, ln)

\* math.log10
FLog10(x) == FDiv(FLn(x), LN10)

\* y is a whole number, and whether it is odd (|y| < 2^30).
is_integer(y) == y.e >= 0 \/ (-y.e <= 15 /\ Abs(y.m) % 2^(-y.e) = 0)
is_odd(y) ==
    IF y.e > 0 THEN FALSE
    ELSE IF y.e = 0 THEN Abs(y.m) % 2 = 1
    ELSE -y.e <= 15 /\ (Abs(y.m) \div 2^(-y.e)) % 2 = 1

\* float ** float.  A negative base with a fractional exponent leaves the
\* floats (Python 3 returns a complex number), marked here as "complex".
pow(x, y) ==
    IF IsErr(x) THEN x
    ELSE IF IsErr(y) THEN y
    ELSE IF y.m = 0 THEN One
    ELSE IF x.m = 0 THEN (IF y.m > 0 THEN Zero ELSE Err("ZeroDivisionError"))
    ELSE IF x.m < 0 /\ ~is_integer(y) THEN Err("complex")
    ELSE Let1(FExp(FMul(y, FLn([x EXCEPT !.m = Abs(x.m)]))),
         LAMBDA p : IF x.m < 0 /\ is_odd(y) THEN neg(p) ELSE p)
FPow(x, y) == Let2(x, y, pow)

\* math.sqrt
sqrt(x) ==
    IF IsErr(x) THEN x
    ELSE IF x.m < 0 THEN Err("ValueError")
    ELSE IF x.m = 0 THEN Zero
    ELSE FExp(FScale(FLn(x), -1))
FSqrt(x) == Let1(x, sqrt)

---------------------------------------------------------------------------
(* ntutools.py                                                             *)

\* The outcome of a call: the exception raised by the first failing step,
\* or the returned value.
RECURSIVE FirstErr(_)
FirstErr(steps) ==
    IF steps = <<>> THEN ""
    ELSE IF IsErr(Head(steps)) THEN Head(steps).err
    ELSE FirstErr(Tail(steps))

Raised(e) == [err |-> e, val |-> None]
Returned(v) == [err |-> "", val |-> v]
Outcome(steps, v) ==
    IF FirstErr(steps) # "" THEN Raised(FirstErr(steps)) ELSE Returned(v)

cf_exponential(ntu, c_ratio) == FExp(FMul(FNeg(ntu), FSub(One, c_ratio)))
cf_numerator(ntu, c_ratio) == FSub(One, cf_exponential(ntu, c_ratio))
cf_denominator(ntu, c_ratio) ==
    FSub(One, FMul(c_ratio, cf_exponential(ntu, c_ratio)))

clamp01(epsilon) == PyMax(Zero, PyMin(One, epsilon))

\* Mutant: the denominator guard of line 11 dropped.
_epsilon_counterflow_unguarded(ntu, c_ratio) ==
    LET epsilon ==
            IF c_ratio = Zero
            THEN FSub(One, FExp(FNeg(ntu)))
            ELSE FDiv(cf_numerator(ntu, c_ratio), cf_denominator(ntu, c_ratio))
    IN  clamp01(epsilon)

\* Mutant: the closed form of line 7 with the sign of the exponent lost.
_epsilon_counterflow_sign(ntu, c_ratio) ==
    LET epsilon ==
            IF c_ratio = Zero
            THEN FSub(One, FExp(ntu))
            ELSE IF cf_denominator(ntu, c_ratio) # Zero
                 THEN FDiv(cf_numerator(ntu, c_ratio), cf_denominator(ntu, c_ratio))
                 ELSE Zero
    IN  clamp01(epsilon)

\* Mutant: a zero denominator answered with full effectiveness.
_epsilon_counterflow_one(ntu, c_ratio) ==
    LET epsilon ==
            IF c_ratio = Zero
            THEN FSub(One, FExp(FNeg(ntu)))
            ELSE IF cf_denominator(ntu, c_ratio) # Zero
                 THEN FDiv(cf_numerator(ntu, c_ratio), cf_denominator(ntu, c_ratio))
                 ELSE One
    IN  clamp01(epsilon)

_epsilon_counterflow(ntu, c_ratio) ==
    LET epsilon ==
            IF c_ratio = Zero
            THEN FSub(One, FExp(FNeg(ntu)))
            ELSE IF cf_denominator(ntu, c_ratio) # Zero
                 THEN FDiv(cf_numerator(ntu, c_ratio), cf_denominator(ntu, c_ratio))
                 ELSE Zero
    IN  clamp01(epsilon)

_epsilon_crossflow(ntu, c_ratio0) ==
    LET c_ratio == IF c_ratio0 = Zero THEN Dec(1, 9) ELSE c_ratio0
        term1   == FMul(FDiv(One, c_ratio), FPow(ntu, Dec(22, 2)))
        term2   == FExp(FMul(FNeg(c_ratio), FPow(ntu, Dec(78, 2))))
        epsilon == FSub(One, FExp(FMul(term1, FSub(term2, One))))
    IN  clamp01(epsilon)

c_ratio_of(c_min, c_max) == IF c_max # Zero THEN FDiv(c_min, c_max) ELSE Zero

\* Mutant: the c_min guard of line 46 dropped.
ntu_of_unguarded(ua_value, c_min) == FDiv(ua_value, c_min)

\* Mutant: without a minimum capacity rate NTU falls back to UA.
ntu_of_ua(ua_value, c_min) ==
    IF c_min # Zero THEN FDiv(ua_value, c_min) ELSE ua_value

ntu_of(ua_value, c_min) == IF c_min # Zero THEN FDiv(ua_value, c_min) ELSE Zero

\* Mutant: an unknown configuration falls through to cross-flow.
epsilon_of_default(ntu, c_ratio, flow_configuration) ==
    IF flow_configuration = "counter-flow" THEN _epsilon_counterflow(ntu, c_ratio)
    ELSE _epsilon_crossflow(ntu, c_ratio)

epsilon_of(ntu, c_ratio, flow_configuration) ==
    IF flow_configuration = "counter-flow" THEN _epsilon_counterflow(ntu, c_ratio)
    ELSE IF flow_configuration = "cross-flow" THEN _epsilon_crossflow(ntu, c_ratio)
    ELSE Err("ValueError")

\* Mutant: the hot outlet offset added instead of subtracted.
hot_out_of_added(hot_in_temperature_c, q_actual, hot_heatcapacity_rate) ==
    FAdd(hot_in_temperature_c,
         IF hot_heatcapacity_rate # Zero
         THEN FDiv(q_actual, hot_heatcapacity_rate) ELSE Zero)

hot_out_of(hot_in_temperature_c, q_actual, hot_heatcapacity_rate) ==
    FSub(hot_in_temperature_c,
         IF hot_heatcapacity_rate # Zero
         THEN FDiv(q_actual, hot_heatcapacity_rate) ELSE Zero)

\* Mutant: the cold outlet offset subtracted instead of added.
cold_out_of_subtracted(cold_in_temperature_c, q_actual, cold_heatcapacity_rate) ==
    FSub(cold_in_temperature_c,
         IF cold_heatcapacity_rate # Zero
         THEN FDiv(q_actual, cold_heatcapacity_rate) ELSE Zero)

cold_out_of(cold_in_temperature_c, q_actual, cold_heatcapacity_rate) ==
    FAdd(cold_in_temperature_c,
         IF cold_heatcapacity_rate # Zero
         THEN FDiv(q_actual, cold_heatcapacity_rate) ELSE Zero)

\* Mutant: the temperature difference taken from cold to hot.
temp_effectiveness_of_negated(temp_change, temp_diff_in) ==
    IF temp_diff_in # Zero THEN FDiv(temp_change, FNeg(temp_diff_in)) ELSE Zero

\* Mutant: the temp_diff_in guard of lines 72 and 76 dropped.
temp_effectiveness_of_unguarded(temp_change, temp_diff_in) ==
    FDiv(temp_change, temp_diff_in)

temp_effectiveness_of(temp_change, temp_diff_in) ==
    IF temp_diff_in # Zero THEN FDiv(temp_change, temp_diff_in) ELSE Zero

\* The returned dict, or the exception one of its entries carries.
result_of(c_ratio, ntu, epsilon, q_actual, hot_out_temperature_c, cold_out_temperature_c, temp_effectiveness_hot, temp_effectiveness_cold) ==
    Outcome(<<c_ratio, ntu, epsilon, q_actual, hot_out_temperature_c,
              cold_out_temperature_c, temp_effectiveness_hot,
              temp_effectiveness_cold>>,
            [total_heat_transfer_w        |-> q_actual,
             ntu                          |-> ntu,
             effectiveness_epsilon        |-> epsilon,
             temp_hot_out_c               |-> hot_out_temperature_c,
             temp_cold_out_c              |-> cold_out_temperature_c,
             temp_effectiveness_hot_side  |-> temp_effectiveness_hot,
             temp_effectiveness_cold_side |-> temp_effectiveness_cold,
             heat_capacity_rate_ratio     |-> c_ratio])

epsilon_ntu(hot_in_temperature_c, cold_in_temperature_c, hot_heatcapacity_rate, cold_heatcapacity_rate, ua_value, flow_configuration) ==
    Let2(PyMin(hot_heatcapacity_rate, cold_heatcapacity_rate),
         PyMax(hot_heatcapacity_rate, cold_heatcapacity_rate),
    LAMBDA c_min, c_max :
    Let2(c_ratio_of(c_min, c_max), ntu_of(ua_value, c_min),
    LAMBDA c_ratio, ntu :
    Let2(epsilon_of(ntu, c_ratio, flow_configuration),
         FMul(c_min, FSub(hot_in_temperature_c, cold_in_temperature_c)),
    LAMBDA epsilon, q_max :
    Let1(FMul(epsilon, q_max),
    LAMBDA q_actual :
    Let2(hot_out_of(hot_in_temperature_c, q_actual, hot_heatcapacity_rate),
         cold_out_of(cold_in_temperature_c, q_actual, cold_heatcapacity_rate),
    LAMBDA hot_out_temperature_c, cold_out_temperature_c :
    Let1(FSub(hot_in_temperature_c, cold_in_temperature_c),
    LAMBDA temp_diff_in :
    result_of(c_ratio, ntu, epsilon, q_actual,
              hot_out_temperature_c, cold_out_temperature_c,
              temp_effectiveness_of(
                  FSub(hot_in_temperature_c, hot_out_temperature_c),
                  temp_diff_in),
              temp_effectiveness_of(
                  FSub(cold_out_temperature_c, cold_in_temperature_c),
                  temp_diff_in))))))))

---------------------------------------------------------------------------
(* plateheatexchanger.py                                                   *)

R_DRY_AIR      == Dec(287058, 3)
R_WATER_VAPOR  == Dec(461495, 3)
CP_DRY_AIR     == FromInt(1006)
CP_WATER_VAPOR == FromInt(1860)
LATENT_HEAT    == FromInt(2501000)

\* Arden Buck equation, one branch above 0 C and one at or below.
get_saturation_pressure_pa(temp_c) ==
    IF FGt(temp_c, Zero)
    THEN FMul(Dec(61121, 2),
              FExp(FMul(FSub(Dec(18678, 3), FDiv(temp_c, Dec(2345, 1))),
                        FDiv(temp_c, FAdd(Dec(25714, 2), temp_c)))))
    ELSE FMul(Dec(61115, 2),
              FExp(FMul(FSub(Dec(23036, 3), FDiv(temp_c, Dec(3337, 1))),
                        FDiv(temp_c, FAdd(Dec(27982, 2), temp_c)))))

p_vapor_of(temp_c, relative_humidity) ==
    FMul(relative_humidity, get_saturation_pressure_pa(temp_c))

get_humidity_ratio(temp_c, pressure_pa, relative_humidity) ==
    Let1(p_vapor_of(temp_c, relative_humidity),
    LAMBDA p_vapor :
    FDiv(FMul(Dec(622, 3), p_vapor), FSub(pressure_pa, p_vapor)))

get_air_viscosity(temp_c) ==
    Let1(FAdd(temp_c, Dec(27315, 2)),
    LAMBDA T :
    FDiv(FMul(Dec(1458, 9), FPow(T, Dec(15, 1))), FAdd(T, Dec(1104, 1))))

get_air_thermal_conductivity(temp_c) ==
    FAdd(Dec(241, 4), FMul(Dec(68, 6), temp_c))

get_air_density(temp_c, pressure_pa, humidity_ratio) ==
    Let1(FAdd(temp_c, Dec(27315, 2)),
    LAMBDA T :
    FDiv(pressure_pa,
         FMul(FMul(R_DRY_AIR, T), FAdd(One, FMul(Dec(608, 3), humidity_ratio)))))

get_specific_heat(humidity_ratio) ==
    FAdd(CP_DRY_AIR, FMul(humidity_ratio, CP_WATER_VAPOR))

\* class MoistAir: the three stored fields.
MoistAir(temperature_c, humidity_ratio, pressure_pa) ==
    [temperature_c  |-> temperature_c,
     humidity_ratio |-> humidity_ratio,
     pressure_pa    |-> pressure_pa]

\* MoistAir.from_rh: the object, or the exception of get_humidity_ratio.
from_rh(temperature_c, relative_humidity, pressure_pa) ==
    Let1(get_humidity_ratio(temperature_c, pressure_pa, relative_humidity),
    LAMBDA hr :
    Outcome(<<hr>>, MoistAir(temperature_c, hr, pressure_pa)))

density(self) ==
    get_air_density(self.temperature_c, self.pressure_pa, self.humidity_ratio)
dynamic_viscosity(self) == get_air_viscosity(self.temperature_c)
thermal_conductivity(self) == get_air_thermal_conductivity(self.temperature_c)
specific_heat(self) == get_specific_heat(self.humidity_ratio)

prandtl_of(mu, cp, k) ==
    IF FGt(k, Zero) THEN FDiv(FMul(cp, mu), k) ELSE Dec(7, 1)
prandtl_number(self) ==
    Let2(dynamic_viscosity(self), specific_heat(self),
    LAMBDA mu, cp :
    Let1(thermal_conductivity(self),
    LAMBDA k : prandtl_of(mu, cp, k)))

\* Mutant: the heat transfer area counted per channel, not per inner plate.
calculate_geometry_channels(self) ==
    [plate_width                |-> self.plate_width,
     plate_height               |-> self.plate_height,
     gap_between_plates         |-> self.gap_between_plates,
     number_of_plates           |-> self.number_of_plates,
     plate_thickness            |-> self.plate_thickness,
     plate_thermal_conductivity |-> self.plate_thermal_conductivity,
     surface_roughness          |-> self.surface_roughness,
     number_of_channels         |-> self.number_of_plates - 1,
     flow_area_per_channel      |->
         FMul(self.gap_between_plates, self.plate_width),
     total_heat_transfer_area   |->
         FMul(FMul(FromInt((self.number_of_plates - 1) * 2), self.plate_width),
              self.plate_height),
     hydraulic_diameter         |-> FMul(FromInt(2), self.gap_between_plates)]

\* PlateHeatExchanger.calculate_geometry: self with the derived fields set.
calculate_geometry(self) ==
    [plate_width                |-> self.plate_width,
     plate_height               |-> self.plate_height,
     gap_between_plates         |-> self.gap_between_plates,
     number_of_plates           |-> self.number_of_plates,
     plate_thickness            |-> self.plate_thickness,
     plate_thermal_conductivity |-> self.plate_thermal_conductivity,
     surface_roughness          |-> self.surface_roughness,
     number_of_channels         |-> self.number_of_plates - 1,
     flow_area_per_channel      |->
         FMul(self.gap_between_plates, self.plate_width),
     total_heat_transfer_area   |->
         FMul(FMul(FromInt((self.number_of_plates - 2) * 2), self.plate_width),
              self.plate_height),
     hydraulic_diameter         |-> FMul(FromInt(2), self.gap_between_plates)]

\* The dataclass constructor: the stored fields, then __post_init__.
PlateHeatExchanger(plate_width, plate_height, gap_between_plates, number_of_plates, plate_thickness) ==
    calculate_geometry(
        [plate_width                |-> plate_width,
         plate_height               |-> plate_height,
         gap_between_plates         |-> gap_between_plates,
         number_of_plates           |-> number_of_plates,
         plate_thickness            |-> plate_thickness,
         plate_thermal_conductivity |-> FromInt(237),
         surface_roughness          |-> Dec(15, 7)])

calculate_reynolds_number(self, velocity, density_, viscosity) ==
    FDiv(FMul(FMul(density_, velocity), self.hydraulic_diameter), viscosity)

LAMINAR_LIMIT == 2300

haaland(rel_roughness, re) ==
    FPow(FMul(Dec(-18, 1),
              FLog10(FAdd(FPow(FDiv(rel_roughness, Dec(37, 1)), Dec(111, 2)),
                          FDiv(Dec(69, 1), re)))),
         FromInt(-2))

\* Mutant: the boundary re = 2300 counted as laminar.
calculate_friction_factor_inclusive(self, re) ==
    IF FLe(re, FromInt(LAMINAR_LIMIT))
    THEN FDiv(FromInt(96), re)
    ELSE haaland(FDiv(self.surface_roughness, self.hydraulic_diameter), re)

\* Mutant: the friction factor turns turbulent at re = 3000 only.
calculate_friction_factor_3000(self, re) ==
    IF FLt(re, FromInt(3000))
    THEN FDiv(FromInt(96), re)
    ELSE haaland(FDiv(self.surface_roughness, self.hydraulic_diameter), re)

calculate_friction_factor(self, re) ==
    IF FLt(re, FromInt(LAMINAR_LIMIT))
    THEN FDiv(FromInt(96), re)
    ELSE haaland(FDiv(self.surface_roughness, self.hydraulic_diameter), re)

gnielinski(f, re, pr) ==
    FDiv(FMul(FMul(FDiv(f, FromInt(8)), FSub(re, FromInt(1000))), pr),
         FAdd(One,
              FMul(FMul(Dec(127, 1), FSqrt(FDiv(f, FromInt(8)))),
                   FSub(FPow(pr, FDiv(FromInt(2), FromInt(3))), One))))

calculate_nusselt_number(self, re, pr) ==
    IF FLt(re, FromInt(LAMINAR_LIMIT))
    THEN Dec(754, 2)
    ELSE Let1(calculate_friction_factor(self, re),
         LAMBDA f : gnielinski(f, re, pr))

\* air_properties is the dict with keys density, viscosity,
\* thermal_conductivity and prandtl.
calculate_convection_coefficient(self, air_properties, velocity) ==
    Let2(calculate_reynolds_number(self, velocity, air_properties.density,
                                   air_properties.viscosity),
         air_properties.prandtl,
    LAMBDA re, pr :
    Let1(calculate_nusselt_number(self, re, pr),
    LAMBDA nu :
    FDiv(FMul(nu, air_properties.thermal_conductivity), self.hydraulic_diameter)))

props_of(air) ==
    [density              |-> density(air),
     viscosity            |-> dynamic_viscosity(air),
     thermal_conductivity |-> thermal_conductivity(air),
     prandtl              |-> prandtl_number(air)]

calculate_u_value(self, hot_air_, cold_air_, velocity) ==
    Let2(props_of(hot_air_), props_of(cold_air_),
    LAMBDA hot_props, cold_props :
    Let2(calculate_convection_coefficient(self, hot_props, velocity),
         calculate_convection_coefficient(self, cold_props, velocity),
    LAMBDA h_hot, h_cold :
    Let1(FDiv(self.plate_thickness, self.plate_thermal_conductivity),
    LAMBDA r_plate :
    Let1(FAdd(FAdd(FDiv(One, h_hot), r_plate), FDiv(One, h_cold)),
    LAMBDA r_total : FDiv(One, r_total)))))

\* Mutant: the mass flow of all channels together.
calculate_mass_flow_rate_total(self, velocity, density_) ==
    FMul(FMul(FMul(density_, velocity), self.flow_area_per_channel),
         FromInt(self.number_of_channels))

calculate_mass_flow_rate(self, velocity, density_) ==
    FMul(FMul(density_, velocity), self.flow_area_per_channel)

---------------------------------------------------------------------------
(* Inputs of the epsilon-NTU calls.                                        *)

MaxTemp  == 2
MaxRate  == 3
MaxUaExp == 2
MaxNtuQ  == 8
MaxNtuExp == 10
CrDen    == 4

Temps   == {FromInt(20 * i - 10) : i \in 0..MaxTemp}
Rates   == {FromInt(1500 * i) : i \in 0..MaxRate}
UaValues == {Zero} \cup {FromInt(500 * 4^k) : k \in 0..MaxUaExp}
Configurations == {"counter-flow", "cross-flow", "parallel-flow", ""}
NtuGrid == {FDiv(FromInt(i), FromInt(4)) : i \in 0..MaxNtuQ}
             \cup {FromInt(2^k) : k \in 2..MaxNtuExp}
CrGrid  == {FDiv(FromInt(j), FromInt(CrDen)) : j \in 0..CrDen}

\* Capacity rates and a UA value near the ends of the range of binary64.
TinyRate == FScale(One, -1000)
HugeRate == FScale(One, 100)
ExtremeRates == {TinyRate, HugeRate}

\* Temperatures and capacity rates whose products are not representable, and
\* a UA value large enough for effectiveness 1.
UnevenTemps == {FromInt(36), FromInt(-14)}
UnevenRates == {FromInt(1335), FromInt(2054)}

EpsilonNtuCalls ==
    [op : {"epsilon_ntu"}, hot_in : Temps, cold_in : Temps,
     hot_rate : Rates, cold_rate : Rates, ua : UaValues, cfg : Configurations]
    \cup
    [op : {"epsilon_ntu"}, hot_in : Temps, cold_in : Temps,
     hot_rate : ExtremeRates, cold_rate : ExtremeRates,
     ua : {Zero, TinyRate}, cfg : Configurations]
    \cup
    [op : {"epsilon_ntu"}, hot_in : UnevenTemps, cold_in : UnevenTemps,
     hot_rate : UnevenRates, cold_rate : UnevenRates,
     ua : {Zero, FromInt(2^20)}, cfg : Configurations]
HelperCalls ==
    [op : {"_epsilon_counterflow", "_epsilon_crossflow"},
     ntu : NtuGrid, c_ratio : CrGrid]

InitNtu ==
    /\ args \in EpsilonNtuCalls \cup HelperCalls
    /\ res = None /\ phe = None /\ hot_air = None /\ cold_air = None

CallEpsilonNtu ==
    /\ args.op = "epsilon_ntu" /\ res = None
    /\ res' = epsilon_ntu(args.hot_in, args.cold_in, args.hot_rate,
                          args.cold_rate, args.ua, args.cfg)
    /\ UNCHANGED <<args, phe, hot_air, cold_air>>

CallEpsilonCounterflow ==
    /\ args.op = "_epsilon_counterflow" /\ res = None
    /\ LET v == _epsilon_counterflow(args.ntu, args.c_ratio)
       IN  res' = Outcome(<<v>>, v)
    /\ UNCHANGED <<args, phe, hot_air, cold_air>>

CallEpsilonCrossflow ==
    /\ args.op = "_epsilon_crossflow" /\ res = None
    /\ LET v == _epsilon_crossflow(args.ntu, args.c_ratio)
       IN  res' = Outcome(<<v>>, v)
    /\ UNCHANGED <<args, phe, hot_air, cold_air>>

NextNtu == CallEpsilonNtu \/ CallEpsilonCounterflow \/ CallEpsilonCrossflow

SpecNtu == InitNtu /\ [][NextNtu]_vars

---------------------------------------------------------------------------
(* Construction of moist air states.                                       *)

MaxAirTemp == 7
RhDen      == 2

AirTemps == {FromInt(20 * i - 20) : i \in 0..MaxAirTemp}
RelativeHumidities == {FDiv(FromInt(i), FromInt(RhDen)) : i \in 0..RhDen}
Pressures == {Zero, FromInt(50000), FromInt(101325)}

AirCalls ==
    [op : {"get_humidity_ratio", "from_rh"}, temperature_c : AirTemps,
     relative_humidity : RelativeHumidities, pressure_pa : Pressures]

InitAir ==
    /\ args \in AirCalls
    /\ res = None /\ phe = None /\ hot_air = None /\ cold_air = None

CallGetHumidityRatio ==
    /\ args.op = "get_humidity_ratio" /\ res = None
    /\ LET v == get_humidity_ratio(args.temperature_c, args.pressure_pa,
                                   args.relative_humidity)
       IN  res' = Outcome(<<v>>, v)
    /\ UNCHANGED <<args, phe, hot_air, cold_air>>

\* hot_air = MoistAir.from_rh(...): the name is bound when the call returns.
CallFromRh ==
    /\ args.op = "from_rh" /\ res = None
    /\ res' = from_rh(args.temperature_c, args.relative_humidity,
                      args.pressure_pa)
    /\ hot_air' = IF res'.err = "" THEN res'.val ELSE hot_air
    /\ UNCHANGED <<args, phe, cold_air>>

NextAir == CallGetHumidityRatio \/ CallFromRh

SpecAir == InitAir /\ [][NextAir]_vars

---------------------------------------------------------------------------
(* A run over one exchanger and two air states: construction, then any     *)
(* sequence of evaluations, each result dropped before the next call.     *)

MaxPlates == 4

DefaultPressure == FromInt(101325)
HotAirs  == {from_rh(FromInt(40), Dec(5, 1), DefaultPressure).val,
             from_rh(FromInt(20), Dec(3, 1), DefaultPressure).val}
ColdAirs == {from_rh(FromInt(10), Dec(9, 1), DefaultPressure).val,
             from_rh(FromInt(-10), Dec(5, 1), DefaultPressure).val}
PlateCounts == (2..MaxPlates) \cup {50}
PlateSizes  == {<<Dec(14, 1), Dec(14, 1)>>, <<Dec(5, 1), One>>}
Gaps        == {Dec(15, 3), Dec(5, 3)}
\* The velocity at which the hot stream of 40 C in a gap of 15 mm has a
\* Reynolds number of exactly 2300 (1.31604 m/s).
TransitionVelocity == [m |-> 21562, e |-> -14, err |-> ""]
Velocities  == {One, TransitionVelocity, FromInt(6)}
ReynoldsNumbers == {FromInt(500), FromInt(2299), FromInt(2300),
                    FromInt(2301), FromInt(12000)}
Sides == {"hot", "cold"}
AirOf(side) == IF side = "hot" THEN hot_air ELSE cold_air

InitPhe ==
    /\ args = None /\ res = None /\ phe = None
    /\ hot_air \in HotAirs /\ cold_air \in ColdAirs

Idle == res = None /\ phe # None

Construct ==
    /\ phe = None
    /\ \E n \in PlateCounts, size \in PlateSizes, gap \in Gaps :
           phe' = PlateHeatExchanger(size[1], size[2], gap, n, Dec(5, 4))
    /\ UNCHANGED <<args, res, hot_air, cold_air>>

CallMoistAirProperty ==
    /\ Idle
    /\ \E side \in Sides,
          name \in {"density", "dynamic_viscosity", "thermal_conductivity",
                    "specific_heat", "prandtl_number"} :
           /\ args' = [op |-> name, side |-> side]
           /\ LET air == AirOf(side)
                  v == CASE name = "density" -> density(air)
                         [] name = "dynamic_viscosity" -> dynamic_viscosity(air)
                         [] name = "thermal_conductivity" -> thermal_conductivity(air)
                         [] name = "specific_heat" -> specific_heat(air)
                         [] name = "prandtl_number" -> prandtl_number(air)
              IN  res' = Let1(v, LAMBDA x : Outcome(<<x>>, x))
    /\ UNCHANGED <<phe, hot_air, cold_air>>

CallCalculateReynoldsNumber ==
    /\ Idle
    /\ \E side \in Sides, velocity \in Velocities :
           /\ args' = [op |-> "calculate_reynolds_number", velocity |-> velocity,
                       density |-> density(AirOf(side)),
                       viscosity |-> dynamic_viscosity(AirOf(side))]
           /\ res' = Let1(calculate_reynolds_number(phe, velocity,
                              density(AirOf(side)),
                              dynamic_viscosity(AirOf(side))),
                          LAMBDA x : Outcome(<<x>>, x))
    /\ UNCHANGED <<phe, hot_air, cold_air>>

CallCalculateFrictionFactor ==
    /\ Idle
    /\ \E re \in ReynoldsNumbers :
           /\ args' = [op |-> "calculate_friction_factor", re |-> re]
           /\ res' = Let1(calculate_friction_factor(phe, re),
                          LAMBDA x : Outcome(<<x>>, x))
    /\ UNCHANGED <<phe, hot_air, cold_air>>

CallCalculateNusseltNumber ==
    /\ Idle
    /\ \E re \in ReynoldsNumbers, side \in Sides :
           /\ args' = [op |-> "calculate_nusselt_number", re |-> re,
                       pr |-> prandtl_number(AirOf(side))]
           /\ res' = Let1(calculate_nusselt_number(phe, re,
                              prandtl_number(AirOf(side))),
                          LAMBDA x : Outcome(<<x>>, x))
    /\ UNCHANGED <<phe, hot_air, cold_air>>

CallCalculateConvectionCoefficient ==
    /\ Idle
    /\ \E side \in Sides, velocity \in Velocities :
           /\ args' = [op |-> "calculate_convection_coefficient",
                       side |-> side, velocity |-> velocity]
           /\ res' = Let1(calculate_convection_coefficient(phe,
                              props_of(AirOf(side)), velocity),
                          LAMBDA x : Outcome(<<x>>, x))
    /\ UNCHANGED <<phe, hot_air, cold_air>>

CallCalculateUValue ==
    /\ Idle
    /\ \E velocity \in Velocities :
           /\ args' = [op |-> "calculate_u_value", velocity |-> velocity]
           /\ res' = Let1(calculate_u_value(phe, hot_air, cold_air, velocity),
                          LAMBDA x : Outcome(<<x>>, x))
    /\ UNCHANGED <<phe, hot_air, cold_air>>

\* Mutant: the method keeps the total flow area on the object.
CallCalculateMassFlowRate_storing ==
    /\ Idle
    /\ \E side \in Sides, velocity \in Velocities :
           /\ args' = [op |-> "calculate_mass_flow_rate", velocity |-> velocity,
                       density |-> density(AirOf(side))]
           /\ res' = Let1(calculate_mass_flow_rate(phe, velocity,
                              density(AirOf(side))),
                          LAMBDA x : Outcome(<<x>>, x))
    /\ phe' = [phe EXCEPT !.flow_area_per_channel =
                   FMul(@, FromInt(phe.number_of_channels + 1))]
    /\ UNCHANGED <<hot_air, cold_air>>

CallCalculateMassFlowRate ==
    /\ Idle
    /\ \E side \in Sides, velocity \in Velocities :
           /\ args' = [op |-> "calculate_mass_flow_rate", velocity |-> velocity,
                       density |-> density(AirOf(side))]
           /\ res' = Let1(calculate_mass_flow_rate(phe, velocity,
                              density(AirOf(side))),
                          LAMBDA x : Outcome(<<x>>, x))
    /\ UNCHANGED <<phe, hot_air, cold_air>>

\* streamlit_test.py, lines 247-248: the capacity rates of the two streams.
capacity_rate(mass_flow, cp, number_of_channels) ==
    FMul(FMul(mass_flow, cp), FromInt(number_of_channels))

\* streamlit_test.py, lines 253-254 (and main, plateheatexchanger.py line
\* 233): the flow regime shown to the user.
flow_type(re) == IF FGt(re, FromInt(2300)) THEN "Turbulent" ELSE "Laminær"

\* streamlit_test.py, lines 243-278: the calculation of one project.
run_calculation(self, hot, cold, velocity) ==
    Let2(calculate_u_value(self, hot, cold, velocity),
         calculate_mass_flow_rate(self, velocity, density(hot)),
    LAMBDA u_value, hot_mass_flow :
    Let2(FMul(u_value, self.total_heat_transfer_area),
         calculate_mass_flow_rate(self, velocity, density(cold)),
    LAMBDA ua_value, cold_mass_flow :
    Let2(capacity_rate(hot_mass_flow, specific_heat(hot), self.number_of_channels),
         capacity_rate(cold_mass_flow, specific_heat(cold), self.number_of_channels),
    LAMBDA hot_c_rate, cold_c_rate :
    Let2(calculate_reynolds_number(self, velocity, density(hot),
                                   dynamic_viscosity(hot)),
         calculate_reynolds_number(self, velocity, density(cold),
                                   dynamic_viscosity(cold)),
    LAMBDA re_hot, re_cold :
    IF FirstErr(<<u_value, ua_value, hot_mass_flow, cold_mass_flow,
                  hot_c_rate, cold_c_rate, re_hot, re_cold>>) # ""
    THEN Raised(FirstErr(<<u_value, ua_value, hot_mass_flow, cold_mass_flow,
                           hot_c_rate, cold_c_rate, re_hot, re_cold>>))
    ELSE Let1(epsilon_ntu(hot.temperature_c, cold.temperature_c, hot_c_rate,
                          cold_c_rate, ua_value, "cross-flow"),
         LAMBDA results :
         IF results.err # "" THEN results
         ELSE Returned([u_value        |-> u_value,
                        ua_value       |-> ua_value,
                        hot_mass_flow  |-> hot_mass_flow,
                        cold_mass_flow |-> cold_mass_flow,
                        hot_c_rate     |-> hot_c_rate,
                        cold_c_rate    |-> cold_c_rate,
                        re_hot         |-> re_hot,
                        re_cold        |-> re_cold,
                        flow_type_hot  |-> flow_type(re_hot),
                        flow_type_cold |-> flow_type(re_cold),
                        results        |-> results.val]))))))

RunCalculation ==
    /\ Idle
    /\ \E velocity \in Velocities :
           /\ args' = [op |-> "run_calculation", velocity |-> velocity]
           /\ res' = run_calculation(phe, hot_air, cold_air, velocity)
    /\ UNCHANGED <<phe, hot_air, cold_air>>

\* The caller drops the result and is ready for the next call.
Discard ==
    /\ res # None
    /\ args' = None /\ res' = None
    /\ UNCHANGED <<phe, hot_air, cold_air>>

NextPhe ==
    \/ Construct
    \/ CallMoistAirProperty
    \/ CallCalculateReynoldsNumber
    \/ CallCalculateFrictionFactor
    \/ CallCalculateNusseltNumber
    \/ CallCalculateConvectionCoefficient
    \/ CallCalculateUValue
    \/ CallCalculateMassFlowRate
    \/ RunCalculation
    \/ Discard

SpecPhe == InitPhe /\ [][NextPhe]_vars

---------------------------------------------------------------------------
(* Properties of the epsilon-NTU calls, checked under SpecNtu.             *)

ValidConfigurations == {"counter-flow", "cross-flow"}
ResultKeys ==
    {"total_heat_transfer_w", "ntu", "effectiveness_epsilon", "temp_hot_out_c",
     "temp_cold_out_c", "temp_effectiveness_hot_side",
     "temp_effectiveness_cold_side", "heat_capacity_rate_ratio"}

Done(op) == args.op = op /\ res # None
EpsilonNtuDone == Done("epsilon_ntu")
EpsilonNtuReturned ==
    EpsilonNtuDone /\ res.err = "" /\ DOMAIN res.val = ResultKeys
HelperDone == Done("_epsilon_counterflow") \/ Done("_epsilon_crossflow")

InUnitInterval(x) == ~IsErr(x) /\ FLe(Zero, x) /\ FLe(x, One)

\* |x - y| <= magnitude * 2^-12, the rounding of a few 15 bit operations.
Within(x, y, magnitude) == FLe(FAbs(FSub(x, y)), FScale(FAbs(magnitude), -12))

\* C1: for every flow_configuration other than 'counter-flow' and
\* 'cross-flow', epsilon_ntu raises ValueError and returns no result record,
\* whatever the numeric inputs are.
C1_InvalidConfigurationRaises ==
    (EpsilonNtuDone /\ args.cfg \notin ValidConfigurations)
        => res = Raised("ValueError")

C1_Witness ==
    /\ EpsilonNtuDone /\ args.cfg = "parallel-flow"
    /\ args.hot_rate = Zero /\ args.cold_rate = Zero
    /\ args.hot_in = args.cold_in
    /\ res.err = "ValueError" /\ res.val = None

\* C2: the effectiveness returned by _epsilon_counterflow, _epsilon_crossflow
\* and epsilon_ntu is a number in [0, 1] for every NTU >= 0 and every Cr in
\* [0, 1], in both configurations.
C2_EffectivenessInUnitInterval ==
    /\ HelperDone => (res.err = "" /\ InUnitInterval(res.val))
    /\ (EpsilonNtuDone /\ args.cfg \in ValidConfigurations)
           => (res.err = "" /\ InUnitInterval(res.val.effectiveness_epsilon))

C2_Witness ==
    /\ Done("_epsilon_counterflow") /\ args.c_ratio = One
    /\ FGt(args.ntu, One) /\ res.err = "" /\ InUnitInterval(res.val)

\* C3: energy balance.  For every call of epsilon_ntu with nonzero hot and
\* cold capacity rates, total_heat_transfer_w equals
\* hot_rate * (hot_in - temp_hot_out_c) and cold_rate * (temp_cold_out_c -
\* cold_in), up to the rounding of the floating point operations.
C3_EnergyBalance ==
    (EpsilonNtuReturned /\ args.hot_rate # Zero /\ args.cold_rate # Zero) =>
        /\ Within(res.val.total_heat_transfer_w,
                  FMul(args.hot_rate, FSub(args.hot_in, res.val.temp_hot_out_c)),
                  FMul(args.hot_rate, FAdd(FAbs(args.hot_in), FAbs(args.cold_in))))
        /\ Within(res.val.total_heat_transfer_w,
                  FMul(args.cold_rate, FSub(res.val.temp_cold_out_c, args.cold_in)),
                  FMul(args.cold_rate, FAdd(FAbs(args.hot_in), FAbs(args.cold_in))))

C3_Witness ==
    /\ EpsilonNtuReturned
    /\ args.hot_rate # Zero /\ args.cold_rate # Zero
    /\ args.hot_rate # args.cold_rate
    /\ FGt(res.val.total_heat_transfer_w, FromInt(1000))

\* C4: guarded singularities never raise.  With a valid configuration,
\* epsilon_ntu returns a full result record for every combination of inlet
\* temperatures, non-negative capacity rates and non-negative UA, with
\* Cr = 0 when Cmax = 0, NTU = 0 when Cmin = 0, a zero outlet temperature
\* offset on a side whose capacity rate is 0, and a zero counter-flow
\* effectiveness when its denominator is 0.
C4_GuardedSingularities ==
    (EpsilonNtuDone /\ args.cfg \in ValidConfigurations) =>
        /\ EpsilonNtuReturned
        /\ PyMax(args.hot_rate, args.cold_rate) = Zero
               => res.val.heat_capacity_rate_ratio = Zero
        /\ PyMin(args.hot_rate, args.cold_rate) = Zero => res.val.ntu = Zero
        /\ args.hot_rate = Zero => res.val.temp_hot_out_c = args.hot_in
        /\ args.cold_rate = Zero => res.val.temp_cold_out_c = args.cold_in
        /\ ( /\ args.cfg = "counter-flow"
             /\ res.val.heat_capacity_rate_ratio # Zero
             /\ cf_denominator(res.val.ntu, res.val.heat_capacity_rate_ratio) = Zero )
               => res.val.effectiveness_epsilon = Zero

C4_Witness ==
    /\ EpsilonNtuReturned /\ args.cfg = "cross-flow"
    /\ args.hot_rate = Zero /\ args.cold_rate = Zero
    /\ args.ua # Zero /\ args.hot_in # args.cold_in
    /\ res.val.ntu = Zero /\ res.val.heat_capacity_rate_ratio = Zero

NearOne(x) == FGe(x, FSub(One, Norm(1, -10)))
NearHalf(x) == FLe(FAbs(FSub(x, Norm(1, -1))), Norm(1, -10))
LargeNtu(ntu) == FGe(ntu, FromInt(64))

\* C5 as stated: for fixed Cr < 1 the counter-flow effectiveness tends to 1
\* as NTU grows, and at Cr = 1 the effectiveness at large NTU tends to
\* 1 / (1 + Cr) = 1/2.
C5_Original ==
    (Done("_epsilon_counterflow") /\ res.err = "") =>
        /\ (FLt(args.c_ratio, One)
            /\ FGe(FMul(args.ntu, FSub(One, args.c_ratio)), FromInt(8)))
               => NearOne(res.val)
        /\ (args.c_ratio = One /\ LargeNtu(args.ntu)) => NearHalf(res.val)

\* C5 (amended): for Cr < 1 the counter-flow effectiveness is at least
\* 1 - exp(-NTU (1 - Cr)), so it tends to 1 as NTU grows (it is within 2^-10
\* of 1 once NTU (1 - Cr) >= 8); at Cr = 1 the denominator is zero and the
\* guard returns effectiveness 0 for every NTU.
C5_CounterflowLimits ==
    (Done("_epsilon_counterflow") /\ res.err = "") =>
        /\ FLt(args.c_ratio, One)
               => FGe(res.val, cf_numerator(args.ntu, args.c_ratio))
        /\ (FLt(args.c_ratio, One)
            /\ FGe(FMul(args.ntu, FSub(One, args.c_ratio)), FromInt(8)))
               => NearOne(res.val)
        /\ args.c_ratio = One => res.val = Zero

C5_Witness ==
    /\ Done("_epsilon_counterflow") /\ res.err = ""
    /\ args.c_ratio = One /\ LargeNtu(args.ntu) /\ res.val = Zero

\* C6: in the counter-flow configuration with Cr = 0 the effectiveness is
\* exactly 1 - exp(-NTU), for every NTU >= 0.
C6_CounterflowClosedForm ==
    (Done("_epsilon_counterflow") /\ args.c_ratio = Zero) =>
        (res.err = "" /\ res.val = FSub(One, FExp(FNeg(args.ntu))))

C6_Witness ==
    /\ Done("_epsilon_counterflow") /\ args.c_ratio = Zero
    /\ args.ntu = FromInt(4) /\ res.err = ""
    /\ FGt(res.val, Zero) /\ FLt(res.val, One)

---------------------------------------------------------------------------
(* Properties of the construction of moist air, checked under SpecAir.     *)

AirCallDone == Done("get_humidity_ratio") \/ Done("from_rh")
LowPressure ==
    FLe(args.pressure_pa, p_vapor_of(args.temperature_c, args.relative_humidity))
ReturnedRatio ==
    IF args.op = "from_rh" THEN res.val.humidity_ratio ELSE res.val

\* C7: get_humidity_ratio, and MoistAir.from_rh which calls it, signal an
\* error whenever pressure_pa <= rh * p_sat(temp_c), so that no MoistAir with
\* an undefined or negative humidity ratio is constructed; for a larger
\* pressure they return 0.622 * p_vapor / (pressure_pa - p_vapor), which is
\* not negative.
C7_LowPressureRaises ==
    AirCallDone =>
        IF LowPressure
        THEN res.err # "" /\ hot_air = None
        ELSE /\ res.err = ""
             /\ ReturnedRatio = get_humidity_ratio(args.temperature_c,
                                    args.pressure_pa, args.relative_humidity)
             /\ FGe(ReturnedRatio, Zero)

\* What the code does instead: it raises only when pressure_pa equals the
\* vapor pressure, and below it returns a negative humidity ratio.
C7_NegativeRatioConstructed ==
    /\ Done("from_rh") /\ LowPressure
    /\ args.pressure_pa = FromInt(101325)
    /\ res.err = "" /\ hot_air = res.val
    /\ FLt(hot_air.humidity_ratio, Zero)

---------------------------------------------------------------------------
(* Properties of the exchanger and its evaluations, checked under SpecPhe. *)

\* C8: for every PlateHeatExchanger constructed with n >= 2 plates and
\* positive width, height and gap, number_of_channels = n - 1 >= 1,
\* hydraulic_diameter = 2 * gap, and total_heat_transfer_area =
\* (n - 2) * 2 * width * height, which is never negative, 0 when n = 2 and
\* positive when n >= 3.
C8_DerivedGeometry ==
    phe # None =>
        /\ phe.number_of_plates >= 2
        /\ FGt(phe.plate_width, Zero) /\ FGt(phe.plate_height, Zero)
        /\ FGt(phe.gap_between_plates, Zero)
        /\ phe.number_of_channels = phe.number_of_plates - 1
        /\ phe.number_of_channels >= 1
        /\ phe.hydraulic_diameter = FMul(FromInt(2), phe.gap_between_plates)
        /\ phe.total_heat_transfer_area =
               FMul(FMul(FromInt((phe.number_of_plates - 2) * 2), phe.plate_width),
                    phe.plate_height)
        /\ FGe(phe.total_heat_transfer_area, Zero)
        /\ (phe.total_heat_transfer_area = Zero) <=> (phe.number_of_plates = 2)
        /\ phe.number_of_plates >= 3 => FGt(phe.total_heat_transfer_area, Zero)

C8_Witness ==
    /\ phe # None /\ phe.number_of_plates = 2
    /\ phe.number_of_channels = 1
    /\ phe.total_heat_transfer_area = Zero

\* The exchanger that differs from self only in its number of plates.
WithPlates(self, n) ==
    PlateHeatExchanger(self.plate_width, self.plate_height,
                       self.gap_between_plates, n, self.plate_thickness)

\* C9: channel-count independence.  calculate_u_value and
\* calculate_mass_flow_rate return the same value on every exchanger that
\* differs only in number_of_plates; the mass flow is that of one channel,
\* and the call site alone scales it by number_of_channels into the capacity
\* rates of the two streams.
C9_ChannelCountIndependence ==
    /\ Done("calculate_u_value") =>
           \A n \in PlateCounts :
               res.val = calculate_u_value(WithPlates(phe, n), hot_air,
                                           cold_air, args.velocity)
    /\ Done("calculate_mass_flow_rate") =>
           /\ res.val = FMul(FMul(args.density, args.velocity),
                             FMul(phe.gap_between_plates, phe.plate_width))
           /\ \A n \in PlateCounts :
                  res.val = calculate_mass_flow_rate(WithPlates(phe, n),
                                args.velocity, args.density)
    /\ (Done("run_calculation") /\ res.err = "") =>
           /\ \A n \in PlateCounts :
                  /\ res.val.u_value =
                         calculate_u_value(WithPlates(phe, n), hot_air,
                                           cold_air, args.velocity)
                  /\ res.val.hot_mass_flow =
                         calculate_mass_flow_rate(WithPlates(phe, n),
                             args.velocity, density(hot_air))
                  /\ res.val.cold_mass_flow =
                         calculate_mass_flow_rate(WithPlates(phe, n),
                             args.velocity, density(cold_air))
           /\ res.val.hot_c_rate =
                  FMul(FMul(res.val.hot_mass_flow, specific_heat(hot_air)),
                       FromInt(phe.number_of_channels))
           /\ res.val.cold_c_rate =
                  FMul(FMul(res.val.cold_mass_flow, specific_heat(cold_air)),
                       FromInt(phe.number_of_channels))

C9_Witness ==
    /\ Done("run_calculation") /\ res.err = ""
    /\ phe.number_of_plates = 50
    /\ res.val.u_value = calculate_u_value(WithPlates(phe, 3), hot_air,
                                           cold_air, args.velocity)
    /\ FGt(res.val.hot_c_rate,
           FMul(FMul(FromInt(40), res.val.hot_mass_flow), specific_heat(hot_air)))

\* The result of the call a on the exchanger self and the two air states.
Evaluation(a, self, hot, cold) ==
    LET air == IF a.side = "hot" THEN hot ELSE cold
        value(x) == Outcome(<<x>>, x)
    IN  CASE a.op = "density" -> value(density(air))
          [] a.op = "dynamic_viscosity" -> value(dynamic_viscosity(air))
          [] a.op = "thermal_conductivity" -> value(thermal_conductivity(air))
          [] a.op = "specific_heat" -> value(specific_heat(air))
          [] a.op = "prandtl_number" -> value(prandtl_number(air))
          [] a.op = "calculate_reynolds_number" ->
                 value(calculate_reynolds_number(self, a.velocity, a.density,
                                                 a.viscosity))
          [] a.op = "calculate_friction_factor" ->
                 value(calculate_friction_factor(self, a.re))
          [] a.op = "calculate_nusselt_number" ->
                 value(calculate_nusselt_number(self, a.re, a.pr))
          [] a.op = "calculate_convection_coefficient" ->
                 value(calculate_convection_coefficient(self, props_of(air),
                                                        a.velocity))
          [] a.op = "calculate_u_value" ->
                 value(calculate_u_value(self, hot, cold, a.velocity))
          [] a.op = "calculate_mass_flow_rate" ->
                 value(calculate_mass_flow_rate(self, a.velocity, a.density))
          [] a.op = "run_calculation" ->
                 run_calculation(self, hot, cold, a.velocity)

\* C10: evaluations are pure and leave their inputs unchanged.  No
\* evaluation modifies a stored or derived field of a MoistAir or of the
\* PlateHeatExchanger: after every evaluation the two air states and the
\* exchanger are what they were, the derived geometry is what
\* calculate_geometry computes from the stored fields, and the same call on
\* the state it leaves returns the same result.
C10_EvaluationsArePure ==
    [][(res = None /\ res' # None) =>
           /\ phe' = phe /\ hot_air' = hot_air /\ cold_air' = cold_air
           /\ phe' = calculate_geometry(phe')
           /\ res' = Evaluation(args', phe', hot_air', cold_air')]_vars

C10_Witness ==
    /\ Done("run_calculation") /\ res.err = ""
    /\ phe = calculate_geometry(phe)
    /\ res = Evaluation(args, phe, hot_air, cold_air)
    /\ FGt(res.val.results.effectiveness_epsilon, Zero)

\* The two formulas of calculate_friction_factor on the exchanger of the state.
LaminarFriction(re) == FDiv(FromInt(96), re)
HaalandFriction(re) ==
    haaland(FDiv(phe.surface_roughness, phe.hydraulic_diameter), re)

\* C11 as stated: calculate_friction_factor uses 96 / re for every re below
\* 2300 and at exactly re = 2300, and the Haaland formula only above 2300.
C11_Original ==
    Done("calculate_friction_factor") =>
        (res.err = "" /\ res.val = IF FLe(args.re, FromInt(2300))
                                   THEN LaminarFriction(args.re)
                                   ELSE HaalandFriction(args.re))

\* C11: calculate_friction_factor uses the laminar formula 96 / re for every
\* re below 2300, and the Haaland formula for every re of 2300 or more: the
\* comparator is <, so the boundary re = 2300 is on the turbulent side.
C11_FrictionRegimeBoundary ==
    Done("calculate_friction_factor") =>
        (res.err = "" /\ res.val = IF FLt(args.re, FromInt(2300))
                                   THEN LaminarFriction(args.re)
                                   ELSE HaalandFriction(args.re))

C11_Witness ==
    /\ Done("calculate_friction_factor") /\ args.re = FromInt(2300)
    /\ res.err = "" /\ res.val = HaalandFriction(args.re)
    /\ res.val # LaminarFriction(args.re)

\* C12: calculate_nusselt_number returns the constant 7.54, whatever Pr is,
\* in the laminar regime, and whenever it evaluates the Gnielinski
\* correlation the friction factor in it is the Haaland one, never 96 / re:
\* calculate_nusselt_number and calculate_friction_factor switch regime at
\* the same re.
C12_NusseltRegimeConsistency ==
    Done("calculate_nusselt_number") =>
        /\ res.err = ""
        /\ res.val = IF FLt(args.re, FromInt(2300))
                     THEN Dec(754, 2)
                     ELSE gnielinski(HaalandFriction(args.re), args.re, args.pr)
        /\ (calculate_friction_factor(phe, args.re) = LaminarFriction(args.re))
               <=> (res.val = Dec(754, 2))

C12_Witness ==
    /\ Done("calculate_nusselt_number") /\ args.re = FromInt(2300)
    /\ res.err = "" /\ res.val # Dec(754, 2)
    /\ res.val = gnielinski(HaalandFriction(args.re), args.re, args.pr)
    /\ res.val # gnielinski(LaminarFriction(args.re), args.re, args.pr)

---------------------------------------------------------------------------
(* Further properties of the epsilon-NTU calls, checked under SpecNtu.     *)

EpsilonNtuValid == EpsilonNtuDone /\ args.cfg \in ValidConfigurations

\* C13: when hot_in = cold_in, epsilon_ntu returns both temperature
\* effectiveness ratios as 0 without dividing by the zero temperature
\* difference, total heat transfer 0 and the outlet temperatures equal to the
\* inlet temperatures, for every pair of capacity rates, UA and valid
\* configuration; when hot_in # cold_in the ratios are
\* (hot_in - hot_out) / (hot_in - cold_in) and
\* (cold_out - cold_in) / (hot_in - cold_in).
C13_EqualInletTemperatures ==
    EpsilonNtuValid =>
        /\ res.err = ""
        /\ IF args.hot_in = args.cold_in
           THEN /\ res.val.temp_effectiveness_hot_side = Zero
                /\ res.val.temp_effectiveness_cold_side = Zero
                /\ res.val.total_heat_transfer_w = Zero
                /\ res.val.temp_hot_out_c = args.hot_in
                /\ res.val.temp_cold_out_c = args.cold_in
           ELSE /\ res.val.temp_effectiveness_hot_side =
                       FDiv(FSub(args.hot_in, res.val.temp_hot_out_c),
                            FSub(args.hot_in, args.cold_in))
                /\ res.val.temp_effectiveness_cold_side =
                       FDiv(FSub(res.val.temp_cold_out_c, args.cold_in),
                            FSub(args.hot_in, args.cold_in))

C13_Witness ==
    /\ EpsilonNtuValid /\ args.hot_in = args.cold_in
    /\ args.hot_rate # Zero /\ args.cold_rate # Zero /\ args.ua # Zero
    /\ res.err = "" /\ FGt(res.val.effectiveness_epsilon, Zero)
    /\ res.val.temp_effectiveness_hot_side = Zero
    /\ res.val.total_heat_transfer_w = Zero

CMin == py_min(args.hot_rate, args.cold_rate)
CMax == py_max(args.hot_rate, args.cold_rate)
NothingTransferred ==
    /\ res.val.ntu = Zero
    /\ res.val.effectiveness_epsilon = Zero
    /\ res.val.total_heat_transfer_w = Zero
    /\ res.val.temp_hot_out_c = args.hot_in
    /\ res.val.temp_cold_out_c = args.cold_in

\* C14 as stated: through epsilon_ntu with finite capacity rates that are
\* not negative, Cr = 0 arises only when Cmin = 0, which forces NTU = 0, so
\* every call with Cr = 0 yields effectiveness 0, total heat transfer 0 and
\* outlet temperatures equal to the inlets, in both configurations.
C14_Original ==
    (EpsilonNtuValid /\ res.err = ""
     /\ res.val.heat_capacity_rate_ratio = Zero) =>
        (CMin = Zero /\ NothingTransferred)

\* C14: every call of epsilon_ntu with Cmin = 0 has Cr = 0 and NTU = 0 and
\* yields effectiveness 0, total heat transfer 0 and outlet temperatures
\* equal to the inlets, in both configurations.  Cr = 0 arises with
\* Cmin > 0 as well, when Cmin / Cmax underflows to 0.0; the counter-flow
\* effectiveness is then the closed form 1 - exp(-NTU), which is not 0 when
\* UA > 0.
C14_ZeroCapacityRatio ==
    (EpsilonNtuValid /\ res.err = "") =>
        /\ CMin = Zero
               => (res.val.heat_capacity_rate_ratio = Zero /\ NothingTransferred)
        /\ res.val.heat_capacity_rate_ratio = Zero
               => (CMin = Zero \/ div(CMin, CMax) = Zero)
        /\ (res.val.heat_capacity_rate_ratio = Zero /\ CMin # Zero
            /\ args.cfg = "counter-flow")
               => res.val.effectiveness_epsilon
                      = FSub(One, FExp(FNeg(FDiv(args.ua, CMin))))

C14_Witness ==
    /\ EpsilonNtuValid /\ res.err = ""
    /\ CMin = Zero /\ CMax # Zero /\ args.ua # Zero
    /\ args.hot_in # args.cold_in
    /\ res.val.heat_capacity_rate_ratio = Zero /\ NothingTransferred

\* A call where Cmin / Cmax underflows and heat is transferred all the same.
C14_UnderflowWitness ==
    /\ EpsilonNtuValid /\ res.err = "" /\ args.cfg = "counter-flow"
    /\ args.hot_rate = TinyRate /\ args.cold_rate = HugeRate
    /\ res.val.heat_capacity_rate_ratio = Zero
    /\ res.val.ntu = One
    /\ FGt(res.val.effectiveness_epsilon, Dec(6, 1))

PositiveRates == FGt(args.hot_rate, Zero) /\ FGt(args.cold_rate, Zero)
InletMagnitude == FAdd(FAbs(args.hot_in), FAbs(args.cold_in))

\* x <= y + magnitude * 2^-12: x is at most y, up to rounding.
AtMost(x, y, magnitude) == FLe(FSub(x, y), FScale(FAbs(magnitude), -12))

NoCrossoverCase ==
    /\ EpsilonNtuValid /\ res.err = ""
    /\ FGe(args.hot_in, args.cold_in) /\ PositiveRates /\ FGe(args.ua, Zero)

\* C15 as stated: for every call of epsilon_ntu with hot_in >= cold_in,
\* positive capacity rates, UA >= 0 and a valid configuration,
\* cold_in <= temp_hot_out_c <= hot_in and cold_in <= temp_cold_out_c <= hot_in.
C15_Original ==
    NoCrossoverCase =>
        /\ FLe(args.cold_in, res.val.temp_hot_out_c)
        /\ FLe(res.val.temp_hot_out_c, args.hot_in)
        /\ FLe(args.cold_in, res.val.temp_cold_out_c)
        /\ FLe(res.val.temp_cold_out_c, args.hot_in)

\* C15: no temperature crossover beyond rounding.  For every call of
\* epsilon_ntu with hot_in >= cold_in, positive capacity rates, UA >= 0 and a
\* valid configuration, both outlet temperatures stay between the inlets up
\* to the rounding of the floating point operations; neither outlet leaves
\* the interval on the side of its own inlet.
C15_NoCrossover ==
    NoCrossoverCase =>
        /\ AtMost(args.cold_in, res.val.temp_hot_out_c, InletMagnitude)
        /\ FLe(res.val.temp_hot_out_c, args.hot_in)
        /\ FLe(args.cold_in, res.val.temp_cold_out_c)
        /\ AtMost(res.val.temp_cold_out_c, args.hot_in, InletMagnitude)

C15_Witness ==
    /\ NoCrossoverCase /\ FGt(args.hot_in, args.cold_in)
    /\ res.val.effectiveness_epsilon = One
    /\ FLt(res.val.temp_hot_out_c, args.cold_in)
    /\ AtMost(args.cold_in, res.val.temp_hot_out_c, InletMagnitude)

RatioCase ==
    /\ EpsilonNtuValid /\ res.err = ""
    /\ PositiveRates /\ args.hot_in # args.cold_in
RatioTolerance ==
    FDiv(InletMagnitude, FAbs(FSub(args.hot_in, args.cold_in)))
RatiosAsDerived ==
    /\ Within(res.val.temp_effectiveness_hot_side,
              FDiv(FMul(res.val.effectiveness_epsilon, CMin), args.hot_rate),
              RatioTolerance)
    /\ Within(res.val.temp_effectiveness_cold_side,
              FDiv(FMul(res.val.effectiveness_epsilon, CMin), args.cold_rate),
              RatioTolerance)
    /\ FGe(res.val.temp_effectiveness_hot_side, Zero)
    /\ FGe(res.val.temp_effectiveness_cold_side, Zero)

\* C16 as stated: for every call of epsilon_ntu with positive capacity rates
\* and hot_in # cold_in, temp_effectiveness_hot_side = epsilon * Cmin /
\* hot_rate and temp_effectiveness_cold_side = epsilon * Cmin / cold_rate (up
\* to rounding), so both ratios lie in [0, 1].
C16_Original ==
    RatioCase =>
        /\ RatiosAsDerived
        /\ FLe(res.val.temp_effectiveness_hot_side, One)
        /\ FLe(res.val.temp_effectiveness_cold_side, One)

\* C16: for every call of epsilon_ntu with positive capacity rates and
\* hot_in # cold_in, the temperature effectiveness of the hot side is
\* epsilon * Cmin / hot_rate and that of the cold side epsilon * Cmin /
\* cold_rate, up to the rounding of the floating point operations; both
\* ratios are at least 0 and exceed 1 by no more than that rounding.
C16_TemperatureEffectiveness ==
    RatioCase =>
        /\ RatiosAsDerived
        /\ AtMost(res.val.temp_effectiveness_hot_side, One, RatioTolerance)
        /\ AtMost(res.val.temp_effectiveness_cold_side, One, RatioTolerance)

C16_Witness ==
    /\ RatioCase /\ FLt(args.hot_rate, args.cold_rate)
    /\ res.val.effectiveness_epsilon = One
    /\ FGt(res.val.temp_effectiveness_hot_side, One)
    /\ AtMost(res.val.temp_effectiveness_hot_side, One, RatioTolerance)
    /\ FLt(res.val.temp_effectiveness_cold_side, One)

---------------------------------------------------------------------------
(* The flow regime shown to the user, checked under SpecPhe.               *)

\* The Nusselt number is the laminar constant: the laminar branch was taken.
LaminarBranch(air, re) ==
    calculate_nusselt_number(phe, re, prandtl_number(air)) = Dec(754, 2)
TurbulentBranch(air, re) ==
    /\ calculate_nusselt_number(phe, re, prandtl_number(air))
           = gnielinski(HaalandFriction(re), re, prandtl_number(air))
    /\ calculate_friction_factor(phe, re) = HaalandFriction(re)
    /\ ~LaminarBranch(air, re)

\* C17: the flow regime label shown to the user agrees, for every Reynolds
\* number, with the branch calculate_nusselt_number and
\* calculate_friction_factor take for that stream: the label is 'Turbulent'
\* exactly when the turbulent (Haaland / Gnielinski) branch is evaluated.
C17_LabelAgreesWithBranch ==
    (Done("run_calculation") /\ res.err = "") =>
        /\ (res.val.flow_type_hot = "Turbulent")
               <=> TurbulentBranch(hot_air, res.val.re_hot)
        /\ (res.val.flow_type_cold = "Turbulent")
               <=> TurbulentBranch(cold_air, res.val.re_cold)

\* The stream at the boundary: labelled laminar, computed as turbulent.
C17_BoundaryMislabelled ==
    /\ Done("run_calculation") /\ res.err = ""
    /\ res.val.re_hot = FromInt(2300)
    /\ res.val.flow_type_hot = "Laminær"
    /\ TurbulentBranch(hot_air, res.val.re_hot)

\* Away from the boundary the label and the branch agree.
C17_AgreementOffBoundary ==
    (Done("run_calculation") /\ res.err = "") =>
        /\ res.val.re_hot # FromInt(2300) =>
               ((res.val.flow_type_hot = "Turbulent")
                    <=> TurbulentBranch(hot_air, res.val.re_hot))
        /\ res.val.re_cold # FromInt(2300) =>
               ((res.val.flow_type_cold = "Turbulent")
                    <=> TurbulentBranch(cold_air, res.val.re_cold))

---------------------------------------------------------------------------
Next == NextNtu \/ NextAir \/ NextPhe

Spec == (InitNtu \/ InitAir \/ InitPhe) /\ [][Next]_vars
=============================================================================
